---- MODULE Spec2Model ----
(***************************************************************************)
(* Model of docs/example_experiment2_lq_cma.py: the experiment driver that *)
(* runs cma.fmin2 with restarts on every problem of a COCO suite, records  *)
(* the termination conditions per problem and rewrites the results file    *)
(* after each problem.                                                     *)
(*                                                                         *)
(* The suite, the problems and the optimizer are external libraries.  A    *)
(* problem is known to the script by its dimension, its evaluation         *)
(* counters and its final_target_hit flag; one optimizer call is a         *)
(* nondeterministic choice of how many evaluations it spends, whether the  *)
(* target is hit, and whether it raises.                                   *)
(***************************************************************************)
EXTENDS Integers, Sequences, FiniteSets, TLC

VARIABLES
    cocopp_ok,       \* environment: `import cocopp` succeeds
    cma_ok,          \* environment: `import cma` succeeds
    imported,        \* names of the optional modules bound in globals()
    num_threads,     \* value of the *_NUM_THREADS environment variables
    fmin,            \* the solver under test
    batches,         \* number of batches
    current_batch,   \* batch number of this run
    budget_multiplier, \* in thirds: 4 stands for 4/3
    suite_len,       \* len(suite)
    pc,              \* position of the script
    exc,             \* exception that ended the script, "none" otherwise
    batch_counter,   \* enumerate counter of the problem loop
    evaluations,     \* problem.evaluations of the current problem
    evaluations_constraints, \* problem.evaluations_constraints
    final_target_hit, \* problem.final_target_hit
    irestart,        \* restart counter of the current problem
    stoppings,       \* defaultdict(list): problem index -> records
    file_,           \* mapping stored in _stopping_conditions.pydict
    nwrites,         \* number of times the results file was written
    processed,       \* indices of the problems that passed the batch filter
    returned,        \* per processed problem: stop records the optimizer returned
    lastcall,        \* arguments of the latest optimizer call
    postprocessed,   \* cocopp.main was called
    schedule,        \* batch harness: current_batch values of the runs to come
    finished         \* batch harness: <<current_batch, selected set>> per ended run

vars == <<cocopp_ok, cma_ok, imported, num_threads, fmin, batches, current_batch,
          budget_multiplier, suite_len, pc, exc, batch_counter, evaluations,
          evaluations_constraints, final_target_hit, irestart, stoppings,
          file_, nwrites, processed, returned, lastcall, postprocessed,
          schedule, finished>>

(***************************************************************************)
(* Bounds of the model.                                                    *)
(***************************************************************************)
SuiteLen == 2          \* problems in the suite of a full run
MaxBatches == 3        \* largest number of batches
MaxBudgetThirds == 3   \* largest budget_multiplier, in thirds
Overshoot == 1         \* evaluations an optimizer call may spend beyond maxfevals
MaxWrap == 2           \* batch harness: current_batch up to MaxWrap * batches above 1..batches
MaxBatchSuite == 4     \* batch harness: largest suite

(***************************************************************************)
(* Program constants.                                                      *)
(***************************************************************************)
LastRestart == 9       \* `if 1 < 3 and irestart >= 9: break`

(***************************************************************************)
(* Dictionaries (defaultdict(list) and dict) as functions on their keys.   *)
(***************************************************************************)
EmptyDict == [k \in {} |-> <<>>]

DictGet(d, k) == IF k \in DOMAIN d THEN d[k] ELSE <<>>

\* mutant of DictAppend: the list is replaced instead of extended
DictAppendOverwrite(d, k, r) ==
    [j \in DOMAIN d \cup {k} |-> IF j = k THEN <<r>> ELSE d[j]]

\* mutant of DictAppend: the key is a counter starting at 1
DictAppendNextKey(d, k, r) ==
    [j \in DOMAIN d \cup {k + 1} |->
        IF j = k + 1 THEN Append(DictGet(d, k + 1), r) ELSE d[j]]

\* stoppings[k].append(r): a missing key is created with an empty list first
DictAppend(d, k, r) ==
    [j \in DOMAIN d \cup {k} |-> IF j = k THEN Append(DictGet(d, k), r) ELSE d[j]]

\* mutant of FileContents: only the current problem's records are written
FileContentsCurrentOnly(d, k) == [j \in DOMAIN d \cap {k} |-> d[j]]

\* repr(dict(stoppings)): every key of stoppings with its list
FileContents(d, k) == [j \in DOMAIN d |-> d[j]]

(***************************************************************************)
(* The suite: problem.index and problem.dimension of the problem that      *)
(* enumerate() yields with counter c (no filter options are set).          *)
(***************************************************************************)
ProblemIndex(c) == c

DimensionOf(c) == IF c % 2 = 0 THEN 2 ELSE 3

(***************************************************************************)
(* Pure functions of the script.                                           *)
(***************************************************************************)
Max(a, b) == IF a >= b THEN a ELSE b

\* int(num / den) for den > 0: truncation towards zero
PyInt(num, den) == IF num >= 0 THEN num \div den ELSE -((-num) \div den)

\* mutant of InBatch: current_batch is not reduced modulo batches
InBatchNoModulo(counter, cb, n) == counter % n = cb

\* the batch filter: the problem is skipped unless this holds
InBatch(counter, cb, n) == counter % n = cb % n

\* mutant of evalsleft: the evaluations are added instead of subtracted
evalsleftAdded(dimension, bm, evals, evals_constraints) ==
    PyInt(dimension * bm + 3 * (1 + Max(evals, evals_constraints)), 3)

\* int(dimension * budget_multiplier + 1 - max(evaluations, evaluations_constraints)),
\* with budget_multiplier bm given in thirds
evalsleft(dimension, bm, evals, evals_constraints) ==
    PyInt(dimension * bm + 3 * (1 - Max(evals, evals_constraints)), 3)

\* mutant of LoopGuard: a budget of zero still starts a restart
LoopGuardNonNegative(left, hit) == left >= 0 /\ ~hit

\* the condition of the restart loop
LoopGuard(left, hit) == left > 0 /\ ~hit

\* cma.CMAEvolutionStrategy(dimension * [1], 1).popsize = 4 + int(3 * ln(dimension))
default_popsize(dimension) ==
    CASE dimension = 2 -> 6
      [] dimension = 3 -> 7
      [] dimension = 5 -> 8
      [] dimension = 10 -> 10
      [] dimension = 20 -> 12
      [] OTHER -> 15

\* mutant of PopSize: the exponent is off by one
PopSizeOffByOne(ir, dimension) == 2^(ir + 1) * default_popsize(dimension)

\* popsize = 2**irestart * default_popsize(problem.dimension)
PopSize(ir, dimension) == 2^ir * default_popsize(dimension)

\* the branch of the if/elif chain in the restart loop that a solver takes;
\* the cma.fmin2 branch is disabled by `11 < 3`, so cma.fmin2 takes the else branch
SolverBranch(f) ==
    CASE f = "scipy.optimize.fmin" -> "fmin"
      [] f = "scipy.optimize.fmin_slsqp" -> "fmin_slsqp"
      [] f = "random_search" -> "random_search"
      [] f = "scipy.optimize.fmin_cobyla" -> "fmin_cobyla"
      [] OTHER -> "else"

\* whether the branch appends the call's termination record to stoppings
BranchRecords(f) == SolverBranch(f) \in {"fmin", "fmin_slsqp", "else"}

\* mutant of BreakAfter: the cap on the restarts is missing
BreakAfterNever(f, ir) == FALSE

\* `if 1 < 3 and irestart >= 9: break`, at the end of the else branch only
BreakAfter(f, ir) == SolverBranch(f) = "else" /\ ir >= LastRestart

\* es.stop() of one call: why the optimizer ended
StopRecord(maxfevals, spent, hit) ==
    IF hit THEN "termination_callback"
    ELSE IF spent >= maxfevals THEN "maxfevals"
    ELSE "tolfun"

(***************************************************************************)
(* The current problem of the problem loop.                                *)
(***************************************************************************)
Idx == ProblemIndex(batch_counter)

Dim == DimensionOf(batch_counter)

\* evalsleft() in the current state
Left == evalsleft(Dim, budget_multiplier, evaluations, evaluations_constraints)

NoCall == [maxfevals |-> 0, popsize |-> 0, spent |-> 0]

(***************************************************************************)
(* A run of the script.                                                    *)
(***************************************************************************)
HarnessIdle == schedule = <<>> /\ finished = <<>>

Init ==
    /\ cocopp_ok \in BOOLEAN
    /\ cma_ok \in BOOLEAN
    /\ imported = {}
    /\ num_threads = "unset"
    /\ fmin = "unassigned"
    /\ batches \in 1..MaxBatches
    /\ current_batch \in 1..batches
    /\ budget_multiplier \in 0..MaxBudgetThirds
    /\ suite_len = SuiteLen
    /\ pc = "import"
    /\ exc = "none"
    /\ batch_counter = 0
    /\ evaluations = 0
    /\ evaluations_constraints = 0
    /\ final_target_hit = FALSE
    /\ irestart = -1
    /\ stoppings = EmptyDict
    /\ file_ = EmptyDict
    /\ nwrites = 0
    /\ processed = {}
    /\ returned = EmptyDict
    /\ lastcall = NoCall
    /\ postprocessed = FALSE
    /\ HarnessIdle

\* set_num_threads(1) and the optional imports.  `import mkl` is local to
\* set_num_threads: found or not, the environment variables are set.  A failing
\* import of cocopp or cma is caught and leaves the name unbound in globals()
ImportModules ==
    /\ pc = "import"
    /\ \E mkl_found \in BOOLEAN : num_threads' = "1"
    /\ imported' = {m \in {"cocopp", "cma"} :
                       \/ m = "cocopp" /\ cocopp_ok
                       \/ m = "cma" /\ cma_ok}
    /\ pc' = "assign"
    /\ UNCHANGED <<cocopp_ok, cma_ok, fmin, batches, current_batch,
                   budget_multiplier, suite_len, exc, batch_counter, evaluations,
                   evaluations_constraints, final_target_hit, irestart, stoppings,
                   file_, nwrites, processed, returned, lastcall, postprocessed,
                   schedule, finished>>

\* fmin = scipy.optimize.fmin_slsqp; fmin = cma.fmin2
AssignFmin ==
    /\ pc = "assign"
    /\ "cma" \in imported
    /\ fmin' = "cma.fmin2"
    /\ pc' = "for"
    /\ UNCHANGED <<cocopp_ok, cma_ok, imported, num_threads, batches, current_batch,
                   budget_multiplier, suite_len, exc, batch_counter, evaluations,
                   evaluations_constraints, final_target_hit, irestart, stoppings,
                   file_, nwrites, processed, returned, lastcall, postprocessed,
                   schedule, finished>>

\* fmin = cma.fmin2 with the name cma unbound raises NameError
AssignFminFails ==
    /\ pc = "assign"
    /\ "cma" \notin imported
    /\ fmin' = "scipy.optimize.fmin_slsqp"
    /\ exc' = "NameError"
    /\ pc' = "aborted"
    /\ UNCHANGED <<cocopp_ok, cma_ok, imported, num_threads, batches, current_batch,
                   budget_multiplier, suite_len, batch_counter, evaluations,
                   evaluations_constraints, final_target_hit, irestart, stoppings,
                   file_, nwrites, processed, returned, lastcall, postprocessed,
                   schedule, finished>>

\* the problem is not of this batch: continue
SkipProblem ==
    /\ pc = "for"
    /\ batch_counter < suite_len
    /\ ~InBatch(batch_counter, current_batch, batches)
    /\ batch_counter' = batch_counter + 1
    /\ UNCHANGED <<cocopp_ok, cma_ok, imported, num_threads, fmin, batches,
                   current_batch, budget_multiplier, suite_len, pc, exc,
                   evaluations, evaluations_constraints, final_target_hit,
                   irestart, stoppings, file_, nwrites, processed, returned,
                   lastcall, postprocessed, schedule, finished>>

\* the problem is of this batch: observe it, evaluate it once at zero (which
\* may already hit the final target), irestart = -1
BeginProblem ==
    /\ pc = "for"
    /\ batch_counter < suite_len
    /\ InBatch(batch_counter, current_batch, batches)
    /\ processed' = processed \cup {Idx}
    /\ returned' = [k \in DOMAIN returned \cup {Idx} |->
                       IF k = Idx THEN <<>> ELSE returned[k]]
    /\ evaluations' = 1
    /\ evaluations_constraints' = 0
    /\ final_target_hit' \in BOOLEAN
    /\ irestart' = -1
    /\ lastcall' = NoCall
    /\ pc' = "while"
    /\ UNCHANGED <<cocopp_ok, cma_ok, imported, num_threads, fmin, batches,
                   current_batch, budget_multiplier, suite_len, exc, batch_counter,
                   stoppings, file_, nwrites, postprocessed, schedule, finished>>

\* one iteration of the restart loop in which the optimizer returns
Restart ==
    /\ pc = "while"
    /\ LoopGuard(Left, final_target_hit)
    /\ \E spent \in 0..(Left + Overshoot), hit \in BOOLEAN :
        /\ hit => spent >= 1
        /\ irestart' = irestart + 1
        /\ evaluations' = evaluations + spent
        /\ final_target_hit' = hit
        /\ lastcall' = [maxfevals |-> Left,
                        popsize |-> PopSize(irestart + 1, Dim),
                        spent |-> spent]
        /\ returned' = [returned EXCEPT
                           ![Idx] = Append(@, StopRecord(Left, spent, hit))]
        /\ stoppings' = IF BranchRecords(fmin)
                        THEN DictAppend(stoppings, Idx, StopRecord(Left, spent, hit))
                        ELSE stoppings
        /\ pc' = IF BreakAfter(fmin, irestart + 1) THEN "write" ELSE "while"
    /\ UNCHANGED <<cocopp_ok, cma_ok, imported, num_threads, fmin, batches,
                   current_batch, budget_multiplier, suite_len, exc, batch_counter,
                   evaluations_constraints, file_, nwrites, processed,
                   postprocessed, schedule, finished>>

\* one iteration of the restart loop in which the optimizer raises: the
\* exception is not caught anywhere and ends the script
RestartRaises ==
    /\ pc = "while"
    /\ LoopGuard(Left, final_target_hit)
    /\ irestart' = irestart + 1
    /\ exc' = "optimizer"
    /\ pc' = "aborted"
    /\ UNCHANGED <<cocopp_ok, cma_ok, imported, num_threads, fmin, batches,
                   current_batch, budget_multiplier, suite_len, batch_counter,
                   evaluations, evaluations_constraints, final_target_hit,
                   stoppings, file_, nwrites, processed, returned, lastcall,
                   postprocessed, schedule, finished>>

\* the condition of the restart loop is false
EndRestarts ==
    /\ pc = "while"
    /\ ~LoopGuard(Left, final_target_hit)
    /\ pc' = "write"
    /\ UNCHANGED <<cocopp_ok, cma_ok, imported, num_threads, fmin, batches,
                   current_batch, budget_multiplier, suite_len, exc, batch_counter,
                   evaluations, evaluations_constraints, final_target_hit,
                   irestart, stoppings, file_, nwrites, processed, returned,
                   lastcall, postprocessed, schedule, finished>>

\* after the restart loop: the results file is opened with 'wt' and rewritten
WriteResults ==
    /\ pc = "write"
    /\ file_' = FileContents(stoppings, Idx)
    /\ nwrites' = nwrites + 1
    /\ batch_counter' = batch_counter + 1
    /\ pc' = "for"
    /\ UNCHANGED <<cocopp_ok, cma_ok, imported, num_threads, fmin, batches,
                   current_batch, budget_multiplier, suite_len, exc, evaluations,
                   evaluations_constraints, final_target_hit, irestart, stoppings,
                   processed, returned, lastcall, postprocessed, schedule,
                   finished>>

\* the suite is exhausted: the timing summary of the last dimension is printed
EndLoop ==
    /\ pc = "for"
    /\ batch_counter = suite_len
    /\ processed /= {}
    /\ pc' = "post"
    /\ UNCHANGED <<cocopp_ok, cma_ok, imported, num_threads, fmin, batches,
                   current_batch, budget_multiplier, suite_len, exc, batch_counter,
                   evaluations, evaluations_constraints, final_target_hit,
                   irestart, stoppings, file_, nwrites, processed, returned,
                   lastcall, postprocessed, schedule, finished>>

\* the suite is exhausted and no problem was of this batch: timings is empty
\* and sorted(timings)[-1] raises IndexError
EndLoopEmpty ==
    /\ pc = "for"
    /\ batch_counter = suite_len
    /\ processed = {}
    /\ exc' = "IndexError"
    /\ pc' = "aborted"
    /\ UNCHANGED <<cocopp_ok, cma_ok, imported, num_threads, fmin, batches,
                   current_batch, budget_multiplier, suite_len, batch_counter,
                   evaluations, evaluations_constraints, final_target_hit,
                   irestart, stoppings, file_, nwrites, processed, returned,
                   lastcall, postprocessed, schedule, finished>>

\* post-processing in the single-batch case when cocopp is bound
PostProcess ==
    /\ pc = "post"
    /\ batches = 1 /\ "cocopp" \in imported
    /\ postprocessed' = TRUE
    /\ pc' = "done"
    /\ UNCHANGED <<cocopp_ok, cma_ok, imported, num_threads, fmin, batches,
                   current_batch, budget_multiplier, suite_len, exc, batch_counter,
                   evaluations, evaluations_constraints, final_target_hit,
                   irestart, stoppings, file_, nwrites, processed, returned,
                   lastcall, schedule, finished>>

SkipPostProcess ==
    /\ pc = "post"
    /\ ~(batches = 1 /\ "cocopp" \in imported)
    /\ pc' = "done"
    /\ UNCHANGED <<cocopp_ok, cma_ok, imported, num_threads, fmin, batches,
                   current_batch, budget_multiplier, suite_len, exc, batch_counter,
                   evaluations, evaluations_constraints, final_target_hit,
                   irestart, stoppings, file_, nwrites, processed, returned,
                   lastcall, postprocessed, schedule, finished>>

Next ==
    \/ ImportModules
    \/ AssignFmin
    \/ AssignFminFails
    \/ SkipProblem
    \/ BeginProblem
    \/ Restart
    \/ RestartRaises
    \/ EndRestarts
    \/ WriteResults
    \/ EndLoop
    \/ EndLoopEmpty
    \/ PostProcess
    \/ SkipPostProcess

Spec == Init /\ [][Next]_vars

(***************************************************************************)
(* The batch filter on its own: the problem loop of several runs of the    *)
(* script on one suite, one run after the other.  The runs have            *)
(* current_batch = 1..batches, followed by the same values shifted by a    *)
(* multiple of batches.  What a run does with a selected problem is left   *)
(* out; `processed` is the set of problems the run selected.               *)
(***************************************************************************)
InitBatch ==
    /\ cocopp_ok = FALSE
    /\ cma_ok = TRUE
    /\ imported = {"cma"}
    /\ num_threads = "1"
    /\ fmin = "cma.fmin2"
    /\ batches \in 1..MaxBatches
    /\ \E wrap \in 1..MaxWrap :
        schedule = [i \in 1..(2 * batches - 1) |->
                       IF i < batches THEN i + 1 ELSE (i - batches + 1) + wrap * batches]
    /\ current_batch = 1
    /\ finished = <<>>
    /\ budget_multiplier = 0
    /\ suite_len \in 0..MaxBatchSuite
    /\ pc = "for"
    /\ exc = "none"
    /\ batch_counter = 0
    /\ evaluations = 0
    /\ evaluations_constraints = 0
    /\ final_target_hit = FALSE
    /\ irestart = -1
    /\ stoppings = EmptyDict
    /\ file_ = EmptyDict
    /\ nwrites = 0
    /\ processed = {}
    /\ returned = EmptyDict
    /\ lastcall = NoCall
    /\ postprocessed = FALSE

\* the problem is of this batch: the loop body is entered
SelectProblem ==
    /\ pc = "for"
    /\ batch_counter < suite_len
    /\ InBatch(batch_counter, current_batch, batches)
    /\ processed' = processed \cup {Idx}
    /\ batch_counter' = batch_counter + 1
    /\ UNCHANGED <<cocopp_ok, cma_ok, imported, num_threads, fmin, batches,
                   current_batch, budget_multiplier, suite_len, pc, exc,
                   evaluations, evaluations_constraints, final_target_hit,
                   irestart, stoppings, file_, nwrites, returned, lastcall,
                   postprocessed, schedule, finished>>

\* the suite is exhausted: the next run starts with the next current_batch
NextRun ==
    /\ pc = "for"
    /\ batch_counter = suite_len
    /\ schedule /= <<>>
    /\ finished' = Append(finished,
                          [current_batch |-> current_batch, selected |-> processed])
    /\ current_batch' = Head(schedule)
    /\ schedule' = Tail(schedule)
    /\ batch_counter' = 0
    /\ processed' = {}
    /\ UNCHANGED <<cocopp_ok, cma_ok, imported, num_threads, fmin, batches,
                   budget_multiplier, suite_len, pc, exc, evaluations,
                   evaluations_constraints, final_target_hit, irestart, stoppings,
                   file_, nwrites, returned, lastcall, postprocessed>>

\* the suite is exhausted in the last run
LastRunEnds ==
    /\ pc = "for"
    /\ batch_counter = suite_len
    /\ schedule = <<>>
    /\ finished' = Append(finished,
                          [current_batch |-> current_batch, selected |-> processed])
    /\ pc' = "done"
    /\ UNCHANGED <<cocopp_ok, cma_ok, imported, num_threads, fmin, batches,
                   current_batch, budget_multiplier, suite_len, exc, batch_counter,
                   evaluations, evaluations_constraints, final_target_hit,
                   irestart, stoppings, file_, nwrites, processed, returned,
                   lastcall, postprocessed, schedule>>

NextBatch ==
    \/ SkipProblem
    \/ SelectProblem
    \/ NextRun
    \/ LastRunEnds

SpecBatch == InitBatch /\ [][NextBatch]_vars

(***************************************************************************)
(* Properties.                                                             *)
(***************************************************************************)
\* problems whose loop body has ended (its restart loop and its file write)
Completed ==
    IF pc \in {"while", "write"} \/ (pc = "aborted" /\ exc = "optimizer")
    THEN processed \ {Idx}
    ELSE processed

\* indices of the problems of the suite
SuiteIndices == {ProblemIndex(c) : c \in 0..(suite_len - 1)}

\* C1: once the runs with current_batch = 1..batches have ended, every problem
\* of the suite was selected by exactly one of them, and they selected nothing else
C1_BatchesPartitionSuite ==
    Len(finished) >= batches =>
        /\ \A i \in 1..batches : finished[i].current_batch = i
        /\ \A i \in 1..batches : finished[i].selected \subseteq SuiteIndices
        /\ \A k \in SuiteIndices :
               Cardinality({i \in 1..batches : k \in finished[i].selected}) = 1

C1_Witness ==
    /\ Len(finished) >= batches
    /\ batches >= 3
    /\ suite_len > batches
    /\ \A i \in 1..batches : finished[i].selected /= {}

\* C9: two ended runs whose current_batch values are congruent modulo batches
\* selected the same set of problems
C9_CongruentBatchesSelectSame ==
    \A i, j \in 1..Len(finished) :
        finished[i].current_batch % batches = finished[j].current_batch % batches
            => finished[i].selected = finished[j].selected

C9_Witness ==
    \E i, j \in 1..Len(finished) :
        /\ finished[i].current_batch <= batches
        /\ finished[j].current_batch > batches
        /\ finished[i].current_batch % batches = finished[j].current_batch % batches
        /\ batches >= 2
        /\ finished[i].selected /= {}
        /\ finished[i].selected /= SuiteIndices

\* C2: the restart loop of a problem runs at most 10 times, and after the
\* 10th iteration it has ended whatever the budget and the target say
C2_AtMostTenRestarts ==
    /\ irestart + 1 <= 10
    /\ \A k \in DOMAIN returned : Len(returned[k]) <= 10
    /\ pc = "while" => irestart + 1 < 10

C2_Witness ==
    /\ pc = "write"
    /\ Len(returned[Idx]) = 10
    /\ Left > 0
    /\ ~final_target_hit

\* C3 as claimed: after each write the keys of the file are exactly the
\* indices of the problems processed so far
C3_KeysAreProcessed ==
    (pc \in {"for", "post", "done"} /\ nwrites > 0) => DOMAIN file_ = processed

\* C3 amended: after each write the keys of the file are exactly the indices of
\* the processed problems on which at least one restart attempt was made
C3_KeysAreAttempted ==
    (pc \in {"for", "post", "done"} /\ nwrites > 0) =>
        DOMAIN file_ = {k \in processed : Len(returned[k]) > 0}

C3_Witness ==
    /\ pc = "for"
    /\ nwrites = 2
    /\ Cardinality(processed) = 2
    /\ Cardinality(DOMAIN file_) = 1

\* C4: the records stored for a processed problem are the stop records of the
\* optimizer calls made on it, one per call, in the order of the calls
C4_OneRecordPerRestart ==
    \A k \in processed : DictGet(stoppings, k) = returned[k]

C4_Witness ==
    /\ pc = "for"
    /\ \E k \in processed :
        /\ Len(returned[k]) >= 3
        /\ returned[k][1] /= returned[k][Len(returned[k])]
        /\ DictGet(file_, k) = returned[k]

\* C5: a restart iteration starts only with a remaining budget > 0 and the
\* target not hit; with the budget used up or the target hit the loop ends with
\* no further record; a first call that uses up the budget without hitting
\* the target leaves exactly one record
C5_RestartOnlyWithBudget ==
    /\ [][(pc = "while" /\ irestart' = irestart + 1)
             => (Left > 0 /\ ~final_target_hit)]_vars
    /\ [][(pc = "while" /\ (Left <= 0 \/ final_target_hit))
             => (pc' = "write" /\ stoppings' = stoppings /\ irestart' = irestart)]_vars
    /\ []((pc \in {"while", "write"} /\ irestart = 0 /\ ~final_target_hit
              /\ lastcall.spent >= lastcall.maxfevals)
             => (Left <= 0 /\ Len(DictGet(stoppings, Idx)) = 1))

C5_Witness ==
    /\ pc = "write"
    /\ irestart = 0
    /\ ~final_target_hit
    /\ lastcall.maxfevals >= 2
    /\ lastcall.spent = lastcall.maxfevals
    /\ Left = 0
    /\ Len(DictGet(stoppings, Idx)) = 1

\* C6: within the restart loop of one problem the remaining budget never
\* increases, and neither does the budget handed to consecutive calls
C6_BudgetNeverIncreases ==
    /\ [][(pc = "while" /\ pc' \in {"while", "write"}) => Left' <= Left]_vars
    /\ [][(pc = "while" /\ irestart >= 0 /\ irestart' = irestart + 1
              /\ lastcall' /= lastcall)
             => lastcall'.maxfevals <= lastcall.maxfevals]_vars

C6_Witness ==
    /\ pc = "while"
    /\ irestart >= 2
    /\ lastcall.maxfevals < evalsleft(Dim, budget_multiplier, 1, 0)
    /\ Left < lastcall.maxfevals
    /\ Left > 0

\* C7: the file is written once per completed problem and holds the records
\* of exactly the completed problems; when the optimizer raises, the file
\* holds the records of all the problems before and none of the current one
C7_FileKeepsCompletedProblems ==
    /\ nwrites = Cardinality(Completed)
    /\ \A k \in Completed : DictGet(file_, k) = returned[k]
    /\ DOMAIN file_ \subseteq Completed

C7_Witness ==
    /\ pc = "aborted"
    /\ exc = "optimizer"
    /\ Len(DictGet(stoppings, Idx)) >= 1
    /\ \E k \in Completed : Len(DictGet(file_, k)) >= 2

\* C8 as claimed: no missing optional module ends the script with an exception
C8_MissingModuleNeverFatal ==
    (~cma_ok \/ ~cocopp_ok) => ~(pc = "aborted" /\ exc = "NameError")

\* C10: the k-th call on a problem (k = 0 for the first) gets 2^k times the
\* default population size of the problem's dimension, and k is at most 9
C10_PopsizeDoubles ==
    (pc \in {"while", "write"} /\ Len(returned[Idx]) >= 1) =>
        /\ Len(returned[Idx]) - 1 <= 9
        /\ lastcall.popsize =
               2^(Len(returned[Idx]) - 1) * default_popsize(DimensionOf(batch_counter))

C10_Witness ==
    /\ pc = "while"
    /\ Len(returned[Idx]) = 1
    /\ lastcall.popsize = 7
    /\ \E k \in processed \ {Idx} : Len(returned[k]) = 10

====
